---- MODULE Spec2Model ----
(***************************************************************************)
(* MergeTreeSource: a pull-based source that reads chunks from a           *)
(* MergeTree select algorithm, either inline (sync) or by handing each     *)
(* read() to a background pool job (AsyncReadingState / Control).          *)
(*                                                                         *)
(* Threads: the executing (scheduler) thread, which calls prepare(),       *)
(* tryGenerate(), schedule() and the destructor, never concurrently with   *)
(* itself; the background pool threads that run the job closures; and the  *)
(* thread that requests cancellation.                                      *)
(***************************************************************************)
EXTENDS Integers, Sequences, FiniteSets, TLC

\* ---- bounds of the model ------------------------------------------------
MaxReads == 3     \* read() calls issued over the life of one source
MaxRows == 1      \* rows in one chunk returned by read()
MaxCount == 1     \* num_read_rows / num_read_bytes of one read()
MaxJobs == 2      \* closures the background pool can hold at once
FairReads == 2    \* read() calls explored under the fairness conditions
MaxLen == 5       \* bytes left in the input when readJSONObject is called
MaxBuf == 3       \* bytes the underlying buffer loads at a time

JobIds == 1..MaxJobs

\* ---- values -------------------------------------------------------------
\* AsyncReadingState::Stage
NotStarted == "NotStarted"
InProgress == "InProgress"
IsFinished == "IsFinished"
Stage == {NotStarted, InProgress, IsFinished}

\* A default-constructed Chunk (no rows); id 0 is the chunk of no read.
EmptyChunk == [id |-> 0, rows |-> 0]

\* A default-constructed ChunkAndProgress.
EmptyChunkAndProgress ==
    [chunk |-> EmptyChunk, num_read_rows |-> 0, num_read_bytes |-> 0]

\* A null std::exception_ptr; a non-null one is the id of the read() that raised.
NoException == 0

\* What one call algorithm->read() can do: return a ChunkAndProgress or raise.
\* The chunk and the error carry the number of the read() that produced them.
ReadOutcomes(id) ==
    {[ok |-> TRUE,
      cp |-> [chunk |-> [id |-> id, rows |-> r],
              num_read_rows |-> a, num_read_bytes |-> b],
      err |-> NoException] : r \in 0..MaxRows, a \in 0..MaxCount, b \in 0..MaxCount}
    \cup {[ok |-> FALSE, cp |-> EmptyChunkAndProgress, err |-> id]}

NoOutcome == [ok |-> TRUE, cp |-> EmptyChunkAndProgress, err |-> NoException]

\* A slot of the background pool with no closure in it.
NoJob == [pc |-> "none", holder |-> FALSE, id |-> 0, out |-> NoOutcome]

\* The value of tryGenerate(): kind is "chunk" (a chunk with rows), "empty"
\* (Chunk(): a value, but no rows), "nullopt" (no value) or "exception";
\* via is the branch that produced it.
NoRet == [kind |-> "none", chunk |-> EmptyChunk, err |-> NoException, via |-> "none"]

NoProgress == [reported |-> FALSE, rows |-> 0, bytes |-> 0]

NoPrepare ==
    [called |-> FALSE, status |-> "none", cancelled |-> FALSE, stage |-> NotStarted,
     finished |-> FALSE, reading |-> FALSE]

VARIABLES
    async,          \* async_reading_state != nullptr
    stage,          \* Control::stage
    event,          \* Control::event, the counter of the eventfd
    chunk,          \* Control::chunk
    exception,      \* Control::exception
    adapterRef,     \* AsyncReadingState::control still holds the Control
    jobs,           \* the closures handed to the pool: pc, holder, read id, outcome
    pcMain,         \* where the executing thread is
    cancelled,      \* IProcessor::is_cancelled
    finished,       \* ISource::finished
    portFinished,   \* the output port was finished
    nreads,         \* read() calls issued so far (cycles started, on the async path)
    ret,            \* what the last tryGenerate() returned or raised
    yielded,        \* the chunks tryGenerate() returned, in order
    progressRows,   \* total rows passed to progress()
    progressBytes,  \* total bytes passed to progress()
    lastProgress,   \* the progress() call of the last reportProgress(), if any
    prep,           \* what the last prepare() saw and reported
    asserts,        \* the chasserts that failed
    nSetResult,     \* calls of Control::setResult
    nSetException,  \* calls of Control::setException
    nGetResult,     \* calls of Control::getResult that consumed the signal
    cancelInFlight, \* the cycle that was InProgress when cancellation was requested
    dtorWaited,     \* ~AsyncReadingState found the stage InProgress
    lastRead,       \* what the most recent algorithm->read() returned or raised
    errorAt,        \* the read() whose error came out of tryGenerate(), 0 if none
    readLog,        \* what the calls of algorithm->read() returned or raised, in order
    readLimit,      \* read() calls after which the exploration stops
    json            \* JSONAsStringRowInputFormat: the buffer and readJSONObject's locals

vars == <<async, stage, event, chunk, exception, adapterRef, jobs, pcMain,
          cancelled, finished, portFinished, nreads, ret, yielded,
          progressRows, progressBytes, lastProgress, prep, asserts,
          nSetResult, nSetException, nGetResult, cancelInFlight, dtorWaited,
          lastRead, errorAt, readLog, readLimit, json>>

controlVars == <<stage, event, chunk, exception>>
outputVars == <<ret, yielded, progressRows, progressBytes, lastProgress, errorAt>>
countVars == <<nSetResult, nSetException, nGetResult>>

\* ---- the readiness signal ------------------------------------------------
\* EventFD::write: add one to the counter; the descriptor becomes readable.
EventFD_write(e) == e + 1

\* EventFD::read returns only once the counter is not zero ...
EventFD_readable(e) == e > 0

\* ... and resets it.
EventFD_read(e) == 0

\* ---- derived state ------------------------------------------------------
\* The Control is alive while some shared_ptr to it exists.
controlAlive == adapterRef \/ \E j \in JobIds : jobs[j].holder

\* The MergeTreeSource (and its algorithm) is alive until its destructor ends.
adapterAlive == pcMain # "destroyed"

\* Closures that have not yet fired the readiness signal.
InFlight == {j \in JobIds : jobs[j].pc \in {"queued", "reading", "setting", "finishing", "signalling"}}

\* Closures whose read() has not returned yet.
Reading == {j \in JobIds : jobs[j].pc \in {"queued", "reading"}}

\* Threads inside algorithm->read() right now.
Readers == Cardinality({j \in JobIds : jobs[j].pc = "reading"})
           + (IF pcMain = "syncRead" THEN 1 ELSE 0)

HasFreeJob == \E j \in JobIds : jobs[j].pc = "none"
FreeJob == CHOOSE j \in JobIds : jobs[j].pc = "none" /\ \A k \in JobIds : k < j => jobs[k].pc # "none"

\* ---- JSONAsStringRowInputFormat: values -----------------------------------
\* The bytes that readJSONObject tells apart, and one it does not.
Alphabet == {"{", "}", "\"", "\\", "a"}

\* Inputs of 1..MaxLen bytes.
Inputs == UNION {[1..n -> Alphabet] : n \in 1..MaxLen}

Min(a, b) == IF a <= b THEN a ELSE b

\* The format before readJSONObject is called on an input: position is the
\* index of the next byte, bufferEnd the index of the last byte loaded, and
\* readRow() has seen !buf->eof(), so the byte at position is loaded.
JSONAt(in, size, start) ==
    [pc |-> "entry", input |-> in, bufSize |-> size,
     position |-> start, bufferEnd |-> Min((((start - 1) \div size) + 1) * size, Len(in)),
     checkpoint |-> 0, balance |-> 0, quotes |-> FALSE,
     column |-> <<>>, error |-> "none"]

\* No format object: the source is not reading JSON.
NoJSON ==
    [pc |-> "none", input |-> <<>>, bufSize |-> 1, position |-> 1, bufferEnd |-> 0,
     checkpoint |-> 0, balance |-> 0, quotes |-> FALSE, column |-> <<>>, error |-> "none"]

\* ---- construction -------------------------------------------------------
\* MergeTreeSource::MergeTreeSource: async_reading_state exists iff the
\* setting use_asynchronous_read_from_pool is on (and the build is for Linux).
SourceInit(limit) ==
    /\ readLimit = limit
    /\ async \in BOOLEAN
    /\ stage = NotStarted
    /\ event = 0
    /\ chunk = EmptyChunkAndProgress
    /\ exception = NoException
    /\ adapterRef = async
    /\ jobs = [j \in JobIds |-> NoJob]
    /\ pcMain = "idle"
    /\ cancelled = FALSE
    /\ finished = FALSE
    /\ portFinished = FALSE
    /\ nreads = 0
    /\ ret = NoRet
    /\ yielded = <<>>
    /\ progressRows = 0
    /\ progressBytes = 0
    /\ lastProgress = NoProgress
    /\ prep = NoPrepare
    /\ asserts = {}
    /\ nSetResult = 0
    /\ nSetException = 0
    /\ nGetResult = 0
    /\ cancelInFlight = 0
    /\ dtorWaited = FALSE
    /\ lastRead = NoOutcome
    /\ errorAt = 0
    /\ readLog = <<>>

\* The source as constructed; no JSON is being read.
InitUpTo(limit) ==
    /\ json = NoJSON
    /\ SourceInit(limit)

\* The source as constructed, explored up to MaxReads calls of read().
Init == InitUpTo(MaxReads)

\* ---- prepare ------------------------------------------------------------
\* ISource::prepare: Finished once the source has finished, else Ready.
ISource_prepare(fin) == IF fin THEN "Finished" ELSE "Ready"

\* prepare() that never reports Async.
prepareNoAsync(hasAsync, isCancelled, st, fin) ==
    IF ~hasAsync THEN ISource_prepare(fin)
    ELSE IF isCancelled THEN "Finished"
    ELSE ISource_prepare(fin)

\* prepare() that looks at the stage before it looks at the cancellation.
prepareAsyncFirst(hasAsync, isCancelled, st, fin) ==
    IF ~hasAsync THEN ISource_prepare(fin)
    ELSE IF st = InProgress THEN "Async"
    ELSE IF isCancelled THEN "Finished"
    ELSE ISource_prepare(fin)

\* prepare() that reports Async for every stage but NotStarted.
prepareAsyncUnlessIdle(hasAsync, isCancelled, st, fin) ==
    IF ~hasAsync THEN ISource_prepare(fin)
    ELSE IF isCancelled THEN "Finished"
    ELSE IF st # NotStarted THEN "Async"
    ELSE ISource_prepare(fin)

\* prepare() that answers Ready itself instead of asking ISource::prepare.
prepareAlwaysReady(hasAsync, isCancelled, st, fin) ==
    IF ~hasAsync THEN "Ready"
    ELSE IF isCancelled THEN "Finished"
    ELSE IF st = InProgress THEN "Async"
    ELSE "Ready"

\* MergeTreeSource::prepare: the status it reports.
prepareStatus(hasAsync, isCancelled, st, fin) ==
    IF ~hasAsync THEN ISource_prepare(fin)
    ELSE IF isCancelled THEN "Finished"
    ELSE IF st = InProgress THEN "Async"
    ELSE ISource_prepare(fin)

\* The executing thread calls prepare().
prepare ==
    /\ pcMain = "idle"
    /\ LET s == prepareStatus(async, cancelled, stage, finished) IN
        /\ prep' = [called |-> TRUE, status |-> s, cancelled |-> cancelled,
                    stage |-> stage, finished |-> finished, reading |-> Reading # {}]
        /\ portFinished' = (portFinished \/ s = "Finished")
        /\ pcMain' = CASE s = "Ready" -> "ready"
                       [] s = "Async" -> "async"
                       [] s = "Finished" -> "finished"
    /\ UNCHANGED <<json, readLimit, async, controlVars, adapterRef, jobs, cancelled, finished, nreads,
                   outputVars, asserts, countVars, cancelInFlight, dtorWaited, lastRead, readLog>>

\* MergeTreeSource::schedule: hand the eventfd to the executor.
schedule ==
    /\ pcMain = "async"
    /\ pcMain' = "polling"
    /\ UNCHANGED <<json, readLimit, async, controlVars, adapterRef, jobs, cancelled, finished, portFinished,
                   nreads, outputVars, prep, lastRead, readLog, asserts, countVars, cancelInFlight, dtorWaited>>

\* The executor polls the descriptor and comes back to the source once it
\* is readable, or once the query was cancelled.
poll ==
    /\ pcMain = "polling"
    /\ EventFD_readable(event) \/ cancelled
    /\ pcMain' = "idle"
    /\ UNCHANGED <<json, readLimit, async, controlVars, adapterRef, jobs, cancelled, finished, portFinished,
                   nreads, outputVars, prep, lastRead, readLog, asserts, countVars, cancelInFlight, dtorWaited>>

\* ---- tryGenerate ---------------------------------------------------------
\* reportProgress() that looks at the row count only.
reportedProgressRowsOnly(cp) ==
    IF cp.num_read_rows # 0
    THEN [reported |-> TRUE, rows |-> cp.num_read_rows, bytes |-> cp.num_read_bytes]
    ELSE NoProgress

\* MergeTreeSource::reportProgress: the progress() call it makes, if any.
reportedProgress(cp) ==
    IF cp.num_read_rows # 0 \/ cp.num_read_bytes # 0
    THEN [reported |-> TRUE, rows |-> cp.num_read_rows, bytes |-> cp.num_read_bytes]
    ELSE NoProgress

\* reportProgress() that returns Chunk() for a result without rows.
reportProgressEmptyChunk(cp, via) ==
    IF cp.chunk.rows > 0
    THEN [kind |-> "chunk", chunk |-> cp.chunk, err |-> NoException, via |-> via]
    ELSE [kind |-> "empty", chunk |-> EmptyChunk, err |-> NoException, via |-> via]

\* reportProgress() that decides by the read count instead of hasRows().
reportProgressByReadRows(cp, via) ==
    IF cp.num_read_rows > 0
    THEN [kind |-> "chunk", chunk |-> cp.chunk, err |-> NoException, via |-> via]
    ELSE [kind |-> "nullopt", chunk |-> EmptyChunk, err |-> NoException, via |-> via]

\* MergeTreeSource::reportProgress: the value it returns.
reportProgress(cp, via) ==
    IF cp.chunk.rows > 0
    THEN [kind |-> "chunk", chunk |-> cp.chunk, err |-> NoException, via |-> via]
    ELSE [kind |-> "nullopt", chunk |-> EmptyChunk, err |-> NoException, via |-> via]

\* ISource::work: the source has finished when tryGenerate() returned no
\* value or raised.
ISource_work(r) == r.kind \in {"nullopt", "exception"}

\* tryGenerate() returns through reportProgress(cp).
ReturnReported(cp, via) ==
    LET r == reportProgress(cp, via)
        p == reportedProgress(cp) IN
    /\ ret' = r
    /\ lastProgress' = p
    /\ progressRows' = progressRows + p.rows
    /\ progressBytes' = progressBytes + p.bytes
    /\ yielded' = IF r.kind = "chunk" THEN Append(yielded, r.chunk) ELSE yielded
    /\ finished' = (finished \/ ISource_work(r))
    /\ UNCHANGED errorAt

\* tryGenerate() raises e, the error of a read().
ReturnRaised(e, via) ==
    LET r == [kind |-> "exception", chunk |-> EmptyChunk, err |-> e, via |-> via] IN
    /\ ret' = r
    /\ finished' = (finished \/ ISource_work(r))
    /\ errorAt' = e
    /\ UNCHANGED <<yielded, progressRows, progressBytes, lastProgress>>

\* Sync path: tryGenerate() enters algorithm->read() on the executing thread.
tryGenerateSync ==
    /\ pcMain = "ready"
    /\ ~async
    /\ nreads < readLimit
    /\ nreads' = nreads + 1
    /\ pcMain' = "syncRead"
    /\ UNCHANGED <<json, readLimit, async, controlVars, adapterRef, jobs, cancelled, finished, portFinished,
                   outputVars, prep, lastRead, readLog, asserts, countVars, cancelInFlight, dtorWaited>>

\* Sync path: read() returns or raises, and tryGenerate() with it.
syncReadReturns ==
    /\ pcMain = "syncRead"
    /\ \E out \in ReadOutcomes(nreads) :
        /\ lastRead' = out
        /\ readLog' = Append(readLog, out)
        /\ IF out.ok THEN ReturnReported(out.cp, "sync") ELSE ReturnRaised(out.err, "sync")
    /\ pcMain' = "idle"
    /\ UNCHANGED <<json, readLimit, async, controlVars, adapterRef, jobs, cancelled, portFinished, nreads,
                   prep, asserts, countVars, cancelInFlight, dtorWaited>>

\* tryGenerate() that tests for the wrong stage before getResult().
takesResultInProgress(st) == st = InProgress

\* tryGenerate() takes the getResult() branch for this stage.
takesResult(st) == st = IsFinished

\* Async path, stage IsFinished: tryGenerate() enters Control::getResult(),
\* which waits for the event.
tryGenerateGetResult ==
    /\ pcMain = "ready"
    /\ async
    /\ takesResult(stage)
    /\ asserts' = asserts \cup (IF stage # IsFinished THEN {"getResult"} ELSE {})
    /\ pcMain' = "getResult"
    /\ UNCHANGED <<json, readLimit, async, controlVars, adapterRef, jobs, cancelled, finished, portFinished,
                   nreads, outputVars, prep, lastRead, readLog, countVars, cancelInFlight, dtorWaited>>

\* Control::getResult: the stage it leaves behind.
stageAfterGetResult == NotStarted

\* getResult() that forgets to rethrow.
rethrownNever(exc) == NoException

\* Control::getResult: the error it rethrows, if any.
rethrown(exc) == exc

\* Control::getResult: the chunk slot after std::move(chunk).
movedFrom(cp) == [cp EXCEPT !.chunk = EmptyChunk]

\* getResult() that does not wait for the event.
getResultWaitsNot(e) == TRUE

\* Control::getResult: event.read() lets it go on for this counter.
getResultWaits(e) == EventFD_readable(e)

\* getResult() that leaves the event as it is.
getResultEventKept(e) == e

\* Control::getResult: the counter after event.read().
getResultEvent(e) == EventFD_read(e)

\* Control::getResult after event.read() returned: reset the stage, rethrow
\* the stored exception or return the stored chunk through reportProgress.
getResult ==
    /\ pcMain = "getResult"
    /\ getResultWaits(event)
    /\ event' = getResultEvent(event)
    /\ stage' = stageAfterGetResult
    /\ nGetResult' = nGetResult + 1
    /\ IF rethrown(exception) # NoException
       THEN /\ ReturnRaised(rethrown(exception), "getResult")
            /\ UNCHANGED chunk
       ELSE /\ ReturnReported(chunk, "getResult")
            /\ chunk' = movedFrom(chunk)
    /\ pcMain' = "idle"
    /\ UNCHANGED <<json, readLimit, async, exception, adapterRef, jobs, cancelled, portFinished, nreads,
                   prep, lastRead, readLog, asserts, nSetResult, nSetException, cancelInFlight, dtorWaited>>

\* start() that forgets the transition.
stageAfterStartUnset == NotStarted

\* start() that sets the wrong stage.
stageAfterStartFinished == IsFinished

\* AsyncReadingState::start: the stage it sets.
stageAfterStart == InProgress

\* The closure built by tryGenerate(): it stores the shared_ptr<Control>
\* returned by start().
newJob(id) == [pc |-> "queued", holder |-> TRUE, id |-> id, out |-> NoOutcome]

\* Async path, stage not IsFinished: start() a cycle and hand the closure to
\* the pool; return Chunk().
tryGenerateStart ==
    /\ pcMain = "ready"
    /\ async
    /\ ~takesResult(stage)
    /\ nreads < readLimit
    /\ HasFreeJob
    /\ asserts' = asserts \cup (IF stage # NotStarted THEN {"tryGenerate", "start"} ELSE {})
    /\ stage' = stageAfterStart
    /\ nreads' = nreads + 1
    /\ jobs' = [jobs EXCEPT ![FreeJob] = newJob(nreads + 1)]
    /\ ret' = [kind |-> "empty", chunk |-> EmptyChunk, err |-> NoException, via |-> "start"]
    /\ pcMain' = "idle"
    /\ UNCHANGED <<json, readLimit, async, event, chunk, exception, adapterRef, cancelled, finished,
                   portFinished, yielded, progressRows, progressBytes, lastProgress,
                   errorAt, prep, lastRead, readLog, countVars, cancelInFlight, dtorWaited>>

\* Async path: start() a cycle, but the pool refuses the closure: the call
\* of callback_runner raises out of tryGenerate() and the closure is dropped.
tryGenerateStartFails ==
    /\ pcMain = "ready"
    /\ async
    /\ ~takesResult(stage)
    /\ nreads < readLimit
    /\ asserts' = asserts \cup (IF stage # NotStarted THEN {"tryGenerate", "start"} ELSE {})
    /\ stage' = stageAfterStart
    /\ nreads' = nreads + 1
    /\ ret' = [kind |-> "exception", chunk |-> EmptyChunk, err |-> NoException, via |-> "schedule"]
    /\ finished' = TRUE
    /\ pcMain' = "idle"
    /\ UNCHANGED <<json, readLimit, async, event, chunk, exception, adapterRef, jobs, cancelled,
                   portFinished, yielded, progressRows, progressBytes, lastProgress,
                   errorAt, prep, lastRead, readLog, countVars, cancelInFlight, dtorWaited>>

\* ---- the closure on a pool thread -----------------------------------------
\* The pool runs the closure: it takes the holder and enters algorithm->read().
jobRun(j) ==
    /\ jobs[j].pc = "queued"
    /\ jobs' = [jobs EXCEPT ![j].pc = "reading"]
    /\ UNCHANGED <<json, readLimit, async, controlVars, adapterRef, pcMain, cancelled, finished, portFinished,
                   nreads, outputVars, prep, lastRead, readLog, asserts, countVars, cancelInFlight, dtorWaited>>

\* algorithm->read() returns or raises inside the closure.
jobReadReturns(j) ==
    /\ jobs[j].pc = "reading"
    /\ \E out \in ReadOutcomes(jobs[j].id) :
        /\ jobs' = [jobs EXCEPT ![j].pc = "setting", ![j].out = out]
        /\ lastRead' = out
        /\ readLog' = Append(readLog, out)
    /\ UNCHANGED <<json, readLimit, async, controlVars, adapterRef, pcMain, cancelled, finished, portFinished,
                   nreads, outputVars, prep, asserts, countVars, cancelInFlight, dtorWaited>>

\* setResult() that moves the chunk but drops the read counts.
storedChunkOnly(cp) == [EmptyChunkAndProgress EXCEPT !.chunk = cp.chunk]

\* Control::setResult: what it stores in the chunk slot.
storedChunk(cp) == cp

\* Control::setException: what it stores in the exception slot.
storedException(e) == e

\* Control::setResult up to the call of finish().
setResult(j) ==
    /\ jobs[j].pc = "setting"
    /\ jobs[j].out.ok
    /\ asserts' = asserts \cup (IF stage # InProgress THEN {"setResult"} ELSE {})
    /\ chunk' = storedChunk(jobs[j].out.cp)
    /\ nSetResult' = nSetResult + 1
    /\ jobs' = [jobs EXCEPT ![j].pc = "finishing"]
    /\ UNCHANGED <<json, readLimit, async, stage, event, exception, adapterRef, pcMain, cancelled, finished,
                   portFinished, nreads, outputVars, prep, lastRead, readLog, nSetException, nGetResult,
                   cancelInFlight, dtorWaited>>

\* Control::setException up to the call of finish().
setException(j) ==
    /\ jobs[j].pc = "setting"
    /\ ~jobs[j].out.ok
    /\ asserts' = asserts \cup (IF stage # InProgress THEN {"setException"} ELSE {})
    /\ exception' = storedException(jobs[j].out.err)
    /\ nSetException' = nSetException + 1
    /\ jobs' = [jobs EXCEPT ![j].pc = "finishing"]
    /\ UNCHANGED <<json, readLimit, async, stage, event, chunk, adapterRef, pcMain, cancelled, finished,
                   portFinished, nreads, outputVars, prep, lastRead, readLog, nSetResult, nGetResult,
                   cancelInFlight, dtorWaited>>

\* finish() that goes straight back to NotStarted.
stageAfterFinishSkips == NotStarted

\* Control::finish: the stage it sets.
stageAfterFinish == IsFinished

\* Control::finish, first statement: stage = IsFinished.
finishStage(j) ==
    /\ jobs[j].pc = "finishing"
    /\ stage' = stageAfterFinish
    /\ jobs' = [jobs EXCEPT ![j].pc = "signalling"]
    /\ UNCHANGED <<json, readLimit, async, event, chunk, exception, adapterRef, pcMain, cancelled, finished,
                   portFinished, nreads, outputVars, prep, lastRead, readLog, asserts, countVars,
                   cancelInFlight, dtorWaited>>

\* finish() that sets the stage and never writes the event.
finishEventLost(e) == e

\* Control::finish: what its second statement does to the event.
finishEvent(e) == EventFD_write(e)

\* Control::finish, second statement: event.write().
finishSignal(j) ==
    /\ jobs[j].pc = "signalling"
    /\ event' = finishEvent(event)
    /\ jobs' = [jobs EXCEPT ![j].pc = "exiting"]
    /\ UNCHANGED <<json, readLimit, async, stage, chunk, exception, adapterRef, pcMain, cancelled, finished,
                   portFinished, nreads, outputVars, prep, lastRead, readLog, asserts, countVars,
                   cancelInFlight, dtorWaited>>

\* The closure returns: the holder releases its reference to the Control.
jobExit(j) ==
    /\ jobs[j].pc = "exiting"
    /\ jobs' = [jobs EXCEPT ![j] = NoJob]
    /\ UNCHANGED <<json, readLimit, async, controlVars, adapterRef, pcMain, cancelled, finished, portFinished,
                   nreads, outputVars, prep, lastRead, readLog, asserts, countVars, cancelInFlight, dtorWaited>>

\* ---- cancellation ---------------------------------------------------------
\* IProcessor::cancel from the cancelling thread: sets is_cancelled and calls
\* MergeTreeSource::onCancel, which forwards to algorithm->cancel().
onCancel ==
    /\ ~cancelled
    /\ pcMain \notin {"dtorWait", "dtorRelease", "destroyed"}
    /\ cancelled' = TRUE
    /\ cancelInFlight' = IF async /\ stage = InProgress THEN nreads ELSE 0
    /\ UNCHANGED <<json, readLimit, async, controlVars, adapterRef, jobs, pcMain, finished, portFinished,
                   nreads, outputVars, prep, lastRead, readLog, asserts, countVars, dtorWaited>>

\* ---- destruction ----------------------------------------------------------
\* A destructor that never waits.
dtorNeverWaits(st) == FALSE

\* ~AsyncReadingState waits for the event for this stage.
dtorMustWait(st) == st = InProgress

\* ~MergeTreeSource begins between two calls of the executing thread;
\* ~AsyncReadingState reads the stage.
dtorBegin ==
    /\ pcMain \in {"idle", "ready", "async", "polling", "finished"}
    /\ dtorWaited' = (async /\ dtorMustWait(stage))
    /\ pcMain' = IF async /\ dtorMustWait(stage) THEN "dtorWait" ELSE "dtorRelease"
    /\ UNCHANGED <<json, readLimit, async, controlVars, adapterRef, jobs, cancelled, finished, portFinished,
                   nreads, outputVars, prep, lastRead, readLog, asserts, countVars, cancelInFlight>>

\* ~AsyncReadingState: control->event.read() returns.
dtorWait ==
    /\ pcMain = "dtorWait"
    /\ EventFD_readable(event)
    /\ event' = EventFD_read(event)
    /\ pcMain' = "dtorRelease"
    /\ UNCHANGED <<json, readLimit, async, stage, chunk, exception, adapterRef, jobs, cancelled, finished,
                   portFinished, nreads, outputVars, prep, lastRead, readLog, asserts, countVars,
                   cancelInFlight, dtorWaited>>

\* The members are destroyed: the adapter's shared_ptr<Control> is released
\* and the algorithm is gone.
dtorRelease ==
    /\ pcMain = "dtorRelease"
    /\ adapterRef' = FALSE
    /\ pcMain' = "destroyed"
    /\ UNCHANGED <<json, readLimit, async, controlVars, jobs, cancelled, finished, portFinished,
                   nreads, outputVars, prep, lastRead, readLog, asserts, countVars, cancelInFlight, dtorWaited>>

\* ---- specification --------------------------------------------------------
Next ==
    \/ prepare
    \/ schedule
    \/ poll
    \/ tryGenerateSync
    \/ syncReadReturns
    \/ tryGenerateGetResult
    \/ getResult
    \/ tryGenerateStart
    \/ tryGenerateStartFails
    \/ \E j \in JobIds : jobRun(j)
    \/ \E j \in JobIds : jobReadReturns(j)
    \/ \E j \in JobIds : setResult(j)
    \/ \E j \in JobIds : setException(j)
    \/ \E j \in JobIds : finishStage(j)
    \/ \E j \in JobIds : finishSignal(j)
    \/ \E j \in JobIds : jobExit(j)
    \/ onCancel
    \/ dtorBegin
    \/ dtorWait
    \/ dtorRelease

Spec == Init /\ [][Next]_vars

TypeOK ==
    /\ async \in BOOLEAN
    /\ stage \in Stage
    /\ event \in 0..MaxReads
    /\ nreads \in 0..MaxReads
    /\ Len(yielded) <= MaxReads

\* ---- properties ------------------------------------------------------------

\* C1: every change of Control::stage is NotStarted -> InProgress, made by
\* tryGenerate() through start(); InProgress -> IsFinished, made by a closure
\* through finish(); or IsFinished -> NotStarted, made by getResult(). No
\* transition is skipped or reversed.
C1_StageCycle ==
    [][stage' # stage =>
        \/ stage = NotStarted /\ stage' = InProgress /\ pcMain = "ready"
        \/ stage = InProgress /\ stage' = IsFinished
              /\ \E j \in JobIds : jobs[j].pc = "finishing" /\ jobs'[j].pc = "signalling"
        \/ stage = IsFinished /\ stage' = NotStarted /\ pcMain = "getResult"]_vars

\* A second cycle has finished after the first was consumed.
C1_Witness == nGetResult >= 1 /\ nreads >= 2 /\ stage = IsFinished

\* C2: the cycles, their setResult/setException calls and their getResult
\* calls advance in lock step: the closure of a cycle has made at most one
\* such call, a cycle is started only when every earlier cycle had exactly
\* one and a getResult() consumed it, and no outcome is consumed twice or
\* before it is stored.
C2_OneOutcomePerCycle ==
    async =>
        LET nSet == nSetResult + nSetException IN
        /\ nreads - nSet \in {0, 1}
        /\ nSet - nGetResult \in {0, 1}
        /\ nreads - nGetResult \in {0, 1}
        /\ \A j \in JobIds :
            /\ jobs[j].pc \in {"queued", "reading", "setting"} => nSet = jobs[j].id - 1
            /\ jobs[j].pc \in {"finishing", "signalling"} => nSet = jobs[j].id

\* The third cycle is under way: two outcomes were stored and both consumed.
C2_Witness ==
    /\ async
    /\ nreads = 3
    /\ nSetResult + nSetException = 2
    /\ nGetResult = 2
    /\ stage = InProgress

\* C3: at most one closure is in flight, at most one thread is inside
\* algorithm->read(), and a closure in flight was submitted after every
\* earlier cycle had finished and been consumed; the stage is InProgress
\* until that closure calls finish().
C3_OneJobInFlight ==
    /\ Cardinality(InFlight) <= 1
    /\ Readers <= 1
    /\ \A j \in InFlight :
        /\ jobs[j].id = nreads
        /\ nGetResult = jobs[j].id - 1
        /\ jobs[j].pc # "signalling" => stage = InProgress

\* The closure of a second cycle is inside read() after the first was consumed.
C3_Witness ==
    /\ nGetResult >= 1
    /\ \E j \in JobIds : jobs[j].pc = "reading" /\ jobs[j].id = 2

\* C4: a closure that has yet to call or is inside algorithm->read() finds
\* the source alive; a closure inside setResult/setException/finish finds the
\* Control alive; and a destructor that found the stage InProgress gets past
\* its wait only after the closure has fired the event.
C4_NoUseAfterDestruction ==
    /\ \A j \in JobIds : jobs[j].pc \in {"queued", "reading"} => adapterAlive
    /\ \A j \in JobIds : jobs[j].pc \in {"setting", "finishing", "signalling"} => controlAlive
    /\ (dtorWaited /\ pcMain \in {"dtorRelease", "destroyed"}) => InFlight = {}

\* The destructor waited for a cycle in progress and has completed, while the
\* closure has not yet returned.
C4_Witness ==
    /\ dtorWaited
    /\ pcMain = "destroyed"
    /\ \E j \in JobIds : jobs[j].pc = "exiting"

\* C5 as stated: a prepare() called after cancellation was requested, while
\* the cycle is still InProgress, reports Async.
C5_AsyncUntilFinished ==
    (async /\ prep.called /\ prep.cancelled /\ prep.stage = InProgress)
        => prep.status = "Async"

\* C5, amended: with offloading enabled, a prepare() called after
\* cancellation was requested reports Finished at once and finishes the
\* output port, also while the cycle is still InProgress; the chunk of the
\* cycle that was InProgress when cancellation was requested is never
\* returned by tryGenerate().
C5_FinishedAtOnce ==
    async =>
        /\ (prep.called /\ prep.cancelled) => (prep.status = "Finished" /\ portFinished)
        /\ cancelInFlight > 0 =>
            \A i \in 1..Len(yielded) : yielded[i].id # cancelInFlight

\* Cancellation came while a cycle was InProgress, prepare() reported
\* Finished while it still was, and the closure has since stored a chunk
\* with rows that nobody takes.
C5_Witness ==
    /\ cancelInFlight > 0
    /\ prep.called /\ prep.cancelled /\ prep.stage = InProgress
    /\ prep.status = "Finished"
    /\ stage = IsFinished
    /\ chunk.chunk.id = cancelInFlight /\ chunk.chunk.rows > 0

\* C6 as stated: once cancellation has been requested prepare() reports
\* Finished, whether or not offloading is enabled.
C6_CancelledAlwaysFinished ==
    (prep.called /\ prep.cancelled) => prep.status = "Finished"

\* C6, amended: with offloading disabled prepare() is the default readiness
\* determination alone, with no look at the cancellation, and never reports
\* Async; with offloading enabled it reports Finished (and finishes the
\* port) if cancellation has been requested, whatever the stage, otherwise
\* Async if the stage is InProgress, otherwise what the default readiness
\* determination reports.
C6_PrepareOrder ==
    prep.called =>
        LET default == IF prep.finished THEN "Finished" ELSE "Ready" IN
        /\ ~async => prep.status = default
        /\ (async /\ prep.cancelled) => (prep.status = "Finished" /\ portFinished)
        /\ (async /\ ~prep.cancelled /\ prep.stage = InProgress) => prep.status = "Async"
        /\ (async /\ ~prep.cancelled /\ prep.stage # InProgress) => prep.status = default
        /\ prep.status = "Finished" => portFinished

\* With offloading disabled, prepare() was called after cancellation was
\* requested and reported Ready.
C6_Witness ==
    /\ ~async
    /\ prep.called /\ prep.cancelled
    /\ prep.status = "Ready"

\* C7: on the async path, with no cancellation requested, a prepare() called
\* while the closure's read() has not returned reports Async; and the
\* tryGenerate() that consumes a cycle whose read() returned a chunk with rows
\* returns exactly that chunk, reports exactly that read's counts as progress,
\* and leaves the stage NotStarted with the event consumed.
C7_AsyncScenario ==
    async =>
        /\ (prep.called /\ ~prep.cancelled /\ prep.reading) => prep.status = "Async"
        /\ (pcMain = "idle" /\ ret.via = "getResult" /\ lastRead.ok /\ lastRead.cp.chunk.rows > 0) =>
            /\ ret.kind = "chunk"
            /\ ret.chunk = lastRead.cp.chunk
            /\ ret.chunk.id = nreads
            /\ yielded # <<>> /\ yielded[Len(yielded)] = lastRead.cp.chunk
            /\ lastProgress = reportedProgress(lastRead.cp)
            /\ stage = NotStarted
            /\ event = 0

\* The cycle's read returned a chunk with rows and non-zero counts, and the
\* tryGenerate() called after prepare() reported Ready has just returned it.
C7_Witness ==
    /\ async
    /\ prep.called /\ prep.status = "Ready"
    /\ pcMain = "idle" /\ ret.via = "getResult" /\ ret.kind = "chunk"
    /\ lastProgress.reported
    /\ stage = NotStarted

\* C8: an error raised by read() inside a closure is in the exception slot
\* once setException has stored it, and the getResult() that consumes that
\* cycle raises exactly that error, with the stage back at NotStarted and the
\* event consumed; an error raised by read() on the sync path comes out of
\* tryGenerate() as it is.
C8_ErrorPropagation ==
    /\ \A j \in JobIds :
        (jobs[j].pc \in {"finishing", "signalling", "exiting"} /\ ~jobs[j].out.ok)
            => exception = jobs[j].out.err
    /\ (pcMain = "idle" /\ ret.via = "getResult" /\ ~lastRead.ok) =>
        /\ ret.kind = "exception"
        /\ ret.err = lastRead.err
        /\ ret.err = nreads
        /\ stage = NotStarted
        /\ event = 0
    /\ (pcMain = "idle" /\ ret.via = "getResult" /\ ret.kind = "exception") => ~lastRead.ok
    /\ (pcMain = "idle" /\ ret.via = "sync") =>
        (~lastRead.ok <=> (ret.kind = "exception" /\ ret.err = lastRead.err /\ ret.err = nreads))

\* The read of a second cycle raised and getResult() has just rethrown it.
C8_Witness ==
    /\ pcMain = "idle"
    /\ ret.via = "getResult" /\ ret.kind = "exception"
    /\ ret.err = 2
    /\ Len(yielded) = 1

\* C9: once the error of a read() has come out of tryGenerate(), no cycle is
\* started and no read() is called any more: that read stays the last one.
C9_NoReadAfterError ==
    errorAt > 0 =>
        /\ nreads = errorAt
        /\ InFlight = {}
        /\ Readers = 0
        /\ pcMain \notin {"ready", "syncRead", "getResult"}
        /\ async => stage = NotStarted

\* An error has surfaced and prepare() has been called after it.
C9_Witness ==
    /\ errorAt > 0
    /\ errorAt < MaxReads
    /\ prep.called /\ prep.finished
    /\ pcMain = "finished"

\* C10: no chassert of setResult, setException, getResult, start or
\* tryGenerate fails, and getResult() runs with the stage IsFinished.
C10_AssertionsHold ==
    /\ asserts = {}
    /\ pcMain = "getResult" => stage = IsFinished
    /\ \A j \in JobIds : jobs[j].pc \in {"queued", "reading", "setting", "finishing"} => stage = InProgress

\* Every chassert has been passed: a cycle ended in setResult and was
\* consumed, and the next one has gone through setException.
C10_Witness ==
    /\ nSetResult >= 1
    /\ nGetResult >= 1
    /\ nSetException = 1
    /\ stage = IsFinished

\* C11: when tryGenerate() has consumed a read result, on the sync path or
\* through getResult(): with zero rows and a non-zero row or byte count it
\* has reported exactly those counts and returned no chunk; with zero rows
\* and zero counts it has reported nothing and returned no chunk; with rows
\* it has returned exactly that chunk, and the chunk is the last one yielded.
C11_ProgressAndChunk ==
    (pcMain = "idle" /\ ret.via \in {"sync", "getResult"} /\ lastRead.ok) =>
        LET cp == lastRead.cp
            counted == cp.num_read_rows # 0 \/ cp.num_read_bytes # 0 IN
        /\ (cp.chunk.rows = 0 /\ counted) =>
            /\ lastProgress = [reported |-> TRUE, rows |-> cp.num_read_rows,
                               bytes |-> cp.num_read_bytes]
            /\ ret.kind \notin {"chunk", "empty"}
            /\ \A i \in 1..Len(yielded) : yielded[i].id # cp.chunk.id
        /\ (cp.chunk.rows = 0 /\ ~counted) =>
            /\ ~lastProgress.reported
            /\ ret.kind \notin {"chunk", "empty"}
            /\ \A i \in 1..Len(yielded) : yielded[i].id # cp.chunk.id
        /\ cp.chunk.rows > 0 =>
            /\ ret.kind = "chunk" /\ ret.chunk = cp.chunk
            /\ yielded # <<>> /\ yielded[Len(yielded)] = cp.chunk
            /\ lastProgress.reported = counted

\* getResult() has just consumed a read of zero rows that read bytes only.
C11_Witness ==
    /\ pcMain = "idle" /\ ret.via = "getResult" /\ lastRead.ok
    /\ lastRead.cp.chunk.rows = 0
    /\ lastRead.cp.num_read_rows = 0 /\ lastRead.cp.num_read_bytes > 0
    /\ lastProgress.reported

\* C12 as stated: for a read result with zero rows tryGenerate() returns the
\* same kind of value as when it has just started a cycle (Chunk(), a value
\* without rows), not the no-value outcome.
C12_EmptyIsNotTerminal ==
    (pcMain = "idle" /\ ret.via \in {"sync", "getResult"} /\ lastRead.ok
        /\ lastRead.cp.chunk.rows = 0)
        => ret.kind = "empty"

\* C12, amended: for a read result with zero rows tryGenerate() returns the
\* no-value outcome (std::nullopt), which is not the Chunk() it returns when
\* it has just started a cycle; that outcome is terminal: the source is
\* finished, that read stays the last one and no cycle is started after it.
C12_EmptyIsTerminal ==
    /\ (pcMain = "idle" /\ ret.via \in {"sync", "getResult"} /\ lastRead.ok
            /\ lastRead.cp.chunk.rows = 0)
        => ret.kind = "nullopt"
    /\ (pcMain = "idle" /\ ret.via = "start") => ret.kind = "empty"
    /\ ret.kind = "nullopt" =>
        /\ finished
        /\ nreads = lastRead.cp.chunk.id
        /\ InFlight = {}
        /\ pcMain \notin {"ready", "syncRead", "getResult"}

\* A read without rows and without counts was consumed, and prepare() has
\* reported Finished after it although more reads could have been issued.
C12_Witness ==
    /\ ret.kind = "nullopt"
    /\ lastRead.cp = [chunk |-> [id |-> nreads, rows |-> 0],
                      num_read_rows |-> 0, num_read_bytes |-> 0]
    /\ nreads < readLimit
    /\ prep.called /\ prep.finished /\ prep.status = "Finished"

\* The read results tryGenerate() has consumed so far: on the async path the
\* first nGetResult ones, on the sync path all of them.
Consumed ==
    IF async
    THEN SubSeq(readLog, 1, IF nGetResult < Len(readLog) THEN nGetResult ELSE Len(readLog))
    ELSE readLog

RECURSIVE NonEmptyChunks(_)
\* The chunks with rows among the read results of log, in read order.
NonEmptyChunks(log) ==
    IF log = <<>> THEN <<>>
    ELSE LET rest == NonEmptyChunks(SubSeq(log, 1, Len(log) - 1))
             last == log[Len(log)] IN
         IF last.ok /\ last.cp.chunk.rows > 0 THEN Append(rest, last.cp.chunk) ELSE rest

RECURSIVE SumReadRows(_)
\* The sum of num_read_rows over the read results of log that did not raise.
SumReadRows(log) ==
    IF log = <<>> THEN 0
    ELSE SumReadRows(SubSeq(log, 1, Len(log) - 1))
         + (IF log[Len(log)].ok THEN log[Len(log)].cp.num_read_rows ELSE 0)

RECURSIVE SumReadBytes(_)
\* The sum of num_read_bytes over the read results of log that did not raise.
SumReadBytes(log) ==
    IF log = <<>> THEN 0
    ELSE SumReadBytes(SubSeq(log, 1, Len(log) - 1))
         + (IF log[Len(log)].ok THEN log[Len(log)].cp.num_read_bytes ELSE 0)

C14_GetResultNeverBlocks ==
    pcMain = "getResult" => EventFD_readable(event)

\* C14, amended: whenever the executing thread is inside getResult(), having
\* seen the stage IsFinished, the closure has returned from read(), stored
\* its outcome and set the stage, and has either written the event or has
\* only the event.write() of finish() left; event.read() can block, but only
\* until that write and never for a read().
C14_GetResultWaitsForWriteOnly ==
    pcMain = "getResult" =>
        /\ stage = IsFinished
        /\ Readers = 0
        /\ \A j \in JobIds : jobs[j].pc \notin {"queued", "reading", "setting", "finishing"}
        /\ nSetResult + nSetException = nreads
        /\ \/ EventFD_readable(event)
           \/ \E j \in JobIds : jobs[j].pc = "signalling" /\ jobs[j].id = nreads

\* The executing thread is inside getResult() and the closure has set the
\* stage but not yet written the event.
C14_Witness ==
    /\ pcMain = "getResult"
    /\ event = 0
    /\ \E j \in JobIds : jobs[j].pc = "signalling"

\* C15: the closure writes the event only after it has stored its outcome in
\* the chunk or exception slot and set the stage to IsFinished; and
\* getResult() reads the slots only with the event of that cycle written,
\* which it consumes, when no closure is writing or has yet to write a slot
\* and the slots hold the outcome of that cycle's read().
C15_SlotBeforeSignalBeforeRead ==
    [][/\ event' > event =>
            /\ stage = IsFinished
            /\ \E j \in JobIds :
                /\ jobs[j].pc = "signalling" /\ jobs'[j].pc = "exiting"
                /\ jobs[j].id = nreads
                /\ jobs[j].out = lastRead
                /\ IF jobs[j].out.ok THEN chunk = jobs[j].out.cp
                                     ELSE exception = jobs[j].out.err
       /\ (pcMain = "getResult" /\ pcMain' = "idle") =>
            /\ event > 0 /\ event' = 0
            /\ stage = IsFinished
            /\ \A j \in JobIds : jobs[j].pc \in {"none", "exiting"}
            /\ nSetResult + nSetException = nreads
            /\ nGetResult = nreads - 1
            /\ IF lastRead.ok THEN chunk = lastRead.cp ELSE exception = lastRead.err
      ]_vars

\* getResult() has just read the slots of a second cycle; the closure that
\* wrote them has not returned yet.
C15_Witness ==
    /\ pcMain = "idle" /\ ret.via = "getResult"
    /\ nGetResult = 2
    /\ event = 0
    /\ \E j \in JobIds : jobs[j].pc = "exiting" /\ jobs[j].id = 2

\* A step of a closure on a pool thread.
JobStep ==
    \E j \in JobIds :
        \/ jobRun(j)
        \/ jobReadReturns(j)
        \/ setResult(j)
        \/ setException(j)
        \/ finishStage(j)
        \/ finishSignal(j)
        \/ jobExit(j)

\* The pool runs the closures it was handed and read() returns or raises:
\* while some closure can take a step, a closure eventually takes one.
JobFairness == WF_vars(JobStep)

\* The source as constructed, explored up to FairReads calls of read().
InitFair == InitUpTo(FairReads)

SpecFair == InitFair /\ [][Next]_vars /\ JobFairness

\* C16: whenever a closure has been handed to the pool and has not yet
\* written the event, a state follows in which the stage is IsFinished and
\* the event is written (the descriptor polled by the executor is readable),
\* whether its read() returns or raises and whatever the executing thread
\* and the cancelling thread do meanwhile; in particular an executor that
\* polls the descriptor while the closure is in the pool finds it readable.
C16_CycleFinishes ==
    /\ (InFlight # {}) ~> (stage = IsFinished /\ EventFD_readable(event))
    /\ (pcMain = "polling" /\ InFlight # {}) ~> EventFD_readable(event)

\* The executor is polling and the closure, whose read() raised, has written
\* the event.
C16_Witness ==
    /\ pcMain = "polling"
    /\ event > 0
    /\ stage = IsFinished
    /\ \E j \in JobIds : jobs[j].pc = "exiting" /\ ~jobs[j].out.ok


\* C17: the stage is InProgress only while a closure of the current cycle is
\* in the pool and has not yet called finish(), and a destructor that waits
\* in event.read() waits for an event that a closure has written or is still
\* going to write, so that the destruction of the adapter always returns.
C17_DestructionTerminates ==
    /\ (async /\ stage = InProgress) =>
          \E j \in JobIds : jobs[j].pc \in {"queued", "reading", "setting", "finishing"}
    /\ (pcMain = "dtorWait") => (InFlight # {} \/ EventFD_readable(event))


\* A caller of tryGenerate() that, unlike ISource::work, asks again after
\* getResult() raised: it respects the stage preconditions of the control
\* block and nothing else.
workAgain ==
    /\ pcMain = "idle"
    /\ async
    /\ finished
    /\ ~cancelled
    /\ ret.kind = "exception" /\ ret.via = "getResult"
    /\ nreads < readLimit
    /\ finished' = FALSE
    /\ UNCHANGED <<json, readLimit, async, controlVars, adapterRef, jobs, pcMain, cancelled, portFinished,
                   nreads, ret, yielded, progressRows, progressBytes, lastProgress, errorAt,
                   prep, lastRead, readLog, asserts, countVars, cancelInFlight, dtorWaited>>

NextRetry == Next \/ workAgain

\* The source driven by a caller that goes on after an error.
SpecRetry == Init /\ [][NextRetry]_vars

EventWrites ==
    nSetResult + nSetException
      - Cardinality({j \in JobIds : jobs[j].pc \in {"finishing", "signalling"}})

\* Calls of event.read() that returned so far: by getResult() and by the
\* destructor.
EventReads ==
    nGetResult + (IF dtorWaited /\ pcMain \in {"dtorRelease", "destroyed"} THEN 1 ELSE 0)

\* C19: the event is pending at most once, and only while the stage is
\* IsFinished and no closure is still on its way to finish(); every cycle
\* writes it once and it is read at most once per cycle, by getResult() or
\* by the destructor, so the counter is the writes less the reads.
C19_EventPendingOnlyWhenFinished ==
    /\ event \in {0, 1}
    /\ EventFD_readable(event) => (stage = IsFinished /\ InFlight = {})
    /\ event = EventWrites - EventReads
    /\ EventReads <= EventWrites
    /\ EventWrites <= nreads

\* The executor polls the descriptor returned by schedule() and finds it
\* readable in the second cycle, after the first was consumed.
C19_Witness ==
    /\ pcMain = "polling"
    /\ event = 1
    /\ stage = IsFinished
    /\ nGetResult = 1
    /\ EventWrites = 2


\* ---- JSONAsStringRowInputFormat::readJSONObject ---------------------------
\* find_first_symbols<...>(begin, end): the index of the first byte of in at
\* or after pos and not after last that is one of syms, last + 1 if none.
RECURSIVE find_first_symbols(_, _, _, _)
find_first_symbols(syms, in, pos, last) ==
    IF pos > last THEN last + 1
    ELSE IF in[pos] \in syms THEN pos
    ELSE find_first_symbols(syms, in, pos + 1, last)

\* ReadBuffer::eof(): no byte is loaded at the position and none can be loaded.
ReadBuffer_eof(f) == f.position > f.bufferEnd /\ f.bufferEnd >= Len(f.input)

\* ReadBuffer::eof() as it leaves the buffer: it loads the next bytes when
\* the position is at the end of the loaded ones.
ReadBuffer_next(f) ==
    IF f.position > f.bufferEnd /\ f.bufferEnd < Len(f.input)
    THEN [f EXCEPT !.bufferEnd = Min(f.bufferEnd + f.bufSize, Len(f.input))]
    ELSE f

\* The bytes readJSONObject searches for, inside and outside quotes.
symbols(quotes) == IF quotes THEN {"\"", "\\"} ELSE {"\"", "{", "}", "\\"}

\* A backslash branch that steps over the backslash only.
afterBackslashOnly(f) == [f EXCEPT !.position = f.position + 1]

\* readJSONObject at a backslash: ++position; if (!eof()) ++position.
afterBackslash(f) ==
    LET g == [f EXCEPT !.position = f.position + 1] IN
    IF ReadBuffer_eof(g) THEN g
    ELSE [ReadBuffer_next(g) EXCEPT !.position = g.position + 1]

\* readJSONObject at the byte found by find_first_symbols.
atSymbol(f) ==
    LET c == f.input[f.position] IN
    IF f.quotes
    THEN IF c = "\"" THEN [f EXCEPT !.quotes = FALSE, !.position = f.position + 1]
         ELSE IF c = "\\" THEN afterBackslash(f)
         ELSE f
    ELSE IF c = "{" THEN [f EXCEPT !.balance = f.balance + 1, !.position = f.position + 1]
         ELSE IF c = "}" THEN [f EXCEPT !.balance = f.balance - 1, !.position = f.position + 1]
         ELSE IF c = "\\" THEN afterBackslash(f)
         ELSE IF c = "\"" THEN [f EXCEPT !.quotes = TRUE, !.position = f.position + 1]
         ELSE f

\* One pass of the body of `while (balance)`.
loopBody(f) ==
    IF ReadBuffer_eof(f)
    THEN [f EXCEPT !.pc = "error", !.error = "INCORRECT_DATA"]
    ELSE LET g == ReadBuffer_next(f)
             pos == find_first_symbols(symbols(g.quotes), g.input, g.position, g.bufferEnd)
             h == [g EXCEPT !.position = pos]
             k == IF pos > g.bufferEnd THEN h ELSE atSymbol(h) IN
         [k EXCEPT !.pc = IF k.balance = 0 THEN "insert" ELSE "loop"]

\* readJSONObject up to the loop: the checkpoint and the test of the first byte.
readJSONObjectBegin ==
    /\ json.pc = "entry"
    /\ json' = IF json.input[json.position] # "{"
               THEN [json EXCEPT !.checkpoint = json.position,
                                 !.pc = "error", !.error = "INCORRECT_DATA"]
               ELSE [json EXCEPT !.checkpoint = json.position,
                                 !.position = json.position + 1,
                                 !.balance = 1, !.pc = "loop"]
    /\ UNCHANGED <<readLimit, async, controlVars, adapterRef, jobs, pcMain, cancelled, finished,
                   portFinished, nreads, outputVars, prep, lastRead, readLog, asserts, countVars,
                   cancelInFlight, dtorWaited>>

\* readJSONObject: one pass of the loop.
readJSONObjectLoop ==
    /\ json.pc = "loop"
    /\ json' = loopBody(json)
    /\ UNCHANGED <<readLimit, async, controlVars, adapterRef, jobs, pcMain, cancelled, finished,
                   portFinished, nreads, outputVars, prep, lastRead, readLog, asserts, countVars,
                   cancelInFlight, dtorWaited>>

\* readJSONObject after the loop: the bytes from the checkpoint to the
\* position go into the column and the position stays behind them.
readJSONObjectInsert ==
    /\ json.pc = "insert"
    /\ json' = [json EXCEPT !.column = SubSeq(json.input, json.checkpoint, json.position - 1),
                            !.pc = "done"]
    /\ UNCHANGED <<readLimit, async, controlVars, adapterRef, jobs, pcMain, cancelled, finished,
                   portFinished, nreads, outputVars, prep, lastRead, readLog, asserts, countVars,
                   cancelInFlight, dtorWaited>>

\* readRow() calls readJSONObject on some input, loaded some bytes at a
\* time, with the position on the first or the second byte of it.
InitJSON ==
    /\ json \in {JSONAt(in, size, start) :
                    in \in Inputs, size \in 1..MaxBuf, start \in 1..2}
    /\ json.position <= Len(json.input)
    /\ SourceInit(0)
    /\ ~async

NextJSON ==
    \/ readJSONObjectBegin
    \/ readJSONObjectLoop
    \/ readJSONObjectInsert

SpecJSON == InitJSON /\ [][NextJSON]_vars


\* The index of the '}' that closes the object whose bytes from index i on
\* are still to be seen, with bal braces open and q telling whether i is
\* inside double quotes: braces inside quotes do not count and the byte after
\* a backslash is stepped over. 0 if the input ends first.
RECURSIVE ClosingBrace(_, _, _, _)
ClosingBrace(in, i, bal, q) ==
    IF i > Len(in) THEN 0
    ELSE IF in[i] = "\\" THEN ClosingBrace(in, i + 2, bal, q)
    ELSE IF in[i] = "\"" THEN ClosingBrace(in, i + 1, bal, ~q)
    ELSE IF q THEN ClosingBrace(in, i + 1, bal, q)
    ELSE IF in[i] = "{" THEN ClosingBrace(in, i + 1, bal + 1, q)
    ELSE IF in[i] = "}" THEN (IF bal = 1 THEN i ELSE ClosingBrace(in, i + 1, bal - 1, q))
    ELSE ClosingBrace(in, i + 1, bal, q)

\* The closing brace of the object readJSONObject was called on, 0 if the
\* input does not begin with '{' or ends before the braces balance.
ObjectEnd ==
    IF json.checkpoint = 0 \/ json.input[json.checkpoint] # "{" THEN 0
    ELSE ClosingBrace(json.input, json.checkpoint + 1, 1, FALSE)

\* C20: when readJSONObject returns, the column holds exactly the bytes from
\* the '{' at the entry position through the '}' that brings the balance
\* back to zero and the position is just behind that '}'; it raises
\* INCORRECT_DATA exactly when the input does not begin with '{' or ends
\* before the braces balance; braces inside double quotes are not counted
\* and the byte after a backslash is stepped over, however the input is cut
\* into buffers.
C20_ReadJSONObject ==
    /\ json.pc \in {"insert", "done"} =>
          /\ ObjectEnd # 0
          /\ json.position = ObjectEnd + 1
          /\ json.balance = 0
    /\ json.pc = "done" =>
          /\ json.column = SubSeq(json.input, json.checkpoint, ObjectEnd)
          /\ json.error = "none"
    /\ json.pc = "error" =>
          /\ ObjectEnd = 0
          /\ json.error = "INCORRECT_DATA"
          /\ json.column = <<>>
    /\ json.pc = "loop" =>
          /\ json.balance > 0
          /\ json.position <= Len(json.input) + 1
          /\ (ObjectEnd # 0 => json.position <= ObjectEnd)

\* readJSONObject returned an object with a brace inside quotes, read two
\* bytes at a time.
C20_Witness ==
    /\ json.pc = "done"
    /\ json.bufSize = 2
    /\ json.checkpoint = 1
    /\ json.input = <<"{", "\"", "}", "\"", "}">>
    /\ json.column = json.input
    /\ json.position = 6

====
